---- MODULE Spec2Model ----
(***************************************************************************)
(* A model of acpl.py of chess_scripts: the annotation pipeline            *)
(* (checkgame, clean_game, classify_opening, judge_move, add_acpl),        *)
(* truncate_pv, and the batch loop of main.                                *)
(*                                                                         *)
(* A game is its main line: node 0 is the root, node n the end, the parent *)
(* of node i is node i-1.  Side variations hang off the main-line nodes.   *)
(* The chess library, the engine and eco.json are the environment: the     *)
(* engine's replies and the table's records are drawn from small sets.     *)
(***************************************************************************)
EXTENDS Integers, Sequences, FiniteSets, TLC

\* ---------------------------------------------------------------- constants
MATE_SCORE == 10000
MAX_CPL == 2000
SHORT_PV_LEN == 10

\* ------------------------------------------------------------------- bounds
\* plies of a game in the pipeline specification
MaxPly == 3
\* side variations of a node in the clean_game specification
MaxSide == 2
\* plies of a game in the clean_game specification
MaxCleanPly == 2
\* records of the opening table, plies of a game, in the classify specification
MaxEco == 2
MaxEcoPly == 3
\* plies of a judged game in the add_acpl specification
MaxAcplPly == 5
\* moves of a principal variation
MaxPV == 20
\* games of a batch
MaxGames == 3

VARIABLES
    game,        \* the game being analysed: [errors, headers, nodes]
    game0,       \* the game as it was parsed (never changes)
    ecodata,     \* the records of eco.json, in file order
    gpc,         \* where analyze_game is
    node,        \* the node the judging loop of analyze_game is at
    root_node,   \* the classified root classify_opening returned
    ply_count,   \* the ply count classify_opening returned
    judge_log,   \* one entry per judge_move call, in call order
    white_cpl,   \* add_acpl's loss lists
    black_cpl,
    acpl_nodes,  \* the nodes whose comment add_acpl read
    pv,          \* truncate_pv: the principal variation
    board,       \* truncate_pv: the scratch board
    pv_i,        \* truncate_pv: moves pushed so far
    pv_out,      \* truncate_pv: [kind, moves], the result or the error
    pgn,         \* main: the games of the file, in file order
    pgn_pos,     \* main: how many of them read_game has consumed
    cur,         \* main: the game read_game returned (<<>> for None)
    engine,      \* main: "none", "running", "quit"
    printed,     \* main: ids of the games whose ACPL was printed
    mpc          \* main: where main is

gvars == <<game, game0, ecodata, gpc, node, root_node, ply_count, judge_log,
           white_cpl, black_cpl, acpl_nodes>>
pvvars == <<pv, board, pv_i, pv_out>>
mvars == <<pgn, pgn_pos, cur, engine, printed, mpc>>
vars == <<gvars, pvvars, mvars>>

\* ------------------------------------------------------------ the game tree
\* node.comment: None, a text, the opening comment, or a judgment
NoComment == [kind |-> "none", text |-> <<>>, bestmove |-> 0, besteval |-> 0, playedeval |-> 0]
TextComment(t) == [NoComment EXCEPT !.kind = "text", !.text = <<t>>]

Last(g) == Cardinality(DOMAIN g.nodes) - 1
Root == 0

\* chess.Board.turn: TRUE is White.  Node i is reached after i plies from a
\* starting position with White to move.
node_board(g, i) ==
    [placement |-> g.nodes[i].placement, turn |-> (i % 2 = 0), castling |-> "KQkq",
     ply |-> i]

NoHeaders ==
    [ECO |-> "", Opening |-> "", Moves |-> <<>>, WhiteACPL |-> <<>>, BlackACPL |-> <<>>]

\* a main-line node: the move that reached it (its ply number), its position,
\* its annotations, and its continuations, the main one (0) first
MkNode(i, n, placement, comment, nags, sides) ==
    [move |-> i, placement |-> placement, comment |-> comment, nags |-> nags,
     variations |-> IF i = n THEN <<>> ELSE <<0>> \o sides]

PlainGame(n, errors) ==
    [errors |-> errors, headers |-> NoHeaders,
     nodes |-> [i \in 0..n |-> MkNode(i, n, "p1", NoComment, <<>>, <<>>)]]

\* ---------------------------------------------------------------- checkgame
\* TRUE when checkgame returns, FALSE when it raises RuntimeError
checkgame_no_parent_check(g) == ~g.errors
checkgame(g) == ~g.errors /\ Last(g) # Root

\* --------------------------------------------------------------- clean_game
RECURSIVE remove_first(_, _)
remove_first(s, x) ==
    IF s = <<>> THEN s
    ELSE IF Head(s) = x THEN Tail(s)
    ELSE <<Head(s)>> \o remove_first(Tail(s), x)

\* GameNode.is_main_variation of the variation at index i of its parent's list
is_main_variation(vs, i) == vs[1] = vs[i]

\* for variation in reversed(node.variations): the reverse iterator holds an
\* index, counts it down, and stops when it leaves the list
RECURSIVE remove_side_variations(_, _)
remove_side_variations(vs, i) ==
    IF i < 1 \/ i > Len(vs) THEN vs
    ELSE IF ~is_main_variation(vs, i)
         THEN remove_side_variations(remove_first(vs, vs[i]), i - 1)
         ELSE remove_side_variations(vs, i - 1)

\* the same loop over node.variations itself, counting up
RECURSIVE remove_forward(_, _)
remove_forward(vs, i) ==
    IF i < 1 \/ i > Len(vs) THEN vs
    ELSE IF ~is_main_variation(vs, i)
         THEN remove_forward(remove_first(vs, vs[i]), i + 1)
         ELSE remove_forward(vs, i + 1)

clean_node_forward(nd) ==
    [nd EXCEPT !.comment = NoComment, !.nags = <<>>,
               !.variations = remove_forward(nd.variations, 1)]

clean_node(nd) ==
    [nd EXCEPT !.comment = NoComment, !.nags = <<>>,
               !.variations = remove_side_variations(nd.variations, Len(nd.variations))]

RECURSIVE clean_walk(_, _)
clean_walk(g, i) ==
    LET g1 == [g EXCEPT !.nodes[i] = clean_node(g.nodes[i])]
    IN  IF i = Root THEN g1 ELSE clean_walk(g1, i - 1)

clean_game(g) == clean_walk(g, Last(g))

\* --------------------------------------------------------- classify_opening
\* "{} {} {}".format(board_fen, to_move, castling_fen): no counters, no ply
eco_fen(b) == <<b.placement, IF b.turn THEN "w" ELSE "b", b.castling>>

NoClassification == [code |-> "", desc |-> "", path |-> ""]

\* for opening in ecodb: every matching record overwrites the classification
RECURSIVE classify_scan(_, _, _)
classify_scan(fen, ecodb, c) ==
    IF ecodb = <<>> THEN c
    ELSE classify_scan(fen, Tail(ecodb),
             IF Head(ecodb).fen = fen
             THEN [code |-> Head(ecodb).eco, desc |-> Head(ecodb).name,
                   path |-> Head(ecodb).moves]
             ELSE c)

classify_fen(fen, ecodb) == classify_scan(fen, ecodb, NoClassification)

EcoComment(c) == [NoComment EXCEPT !.kind = "eco", !.text = <<c.code, c.desc>>]

\* the loop without its break: every matching node is classified in turn
RECURSIVE classify_walk_no_break(_, _, _, _, _)
classify_walk_no_break(g, ecodb, i, ply, root) ==
    IF i = Root
    THEN [game |-> [g EXCEPT !.headers.Moves = <<ply>>], root_node |-> root,
          ply_count |-> ply]
    ELSE LET c == classify_fen(eco_fen(node_board(g, i)), ecodb)
         IN  IF c.code # ""
             THEN classify_walk_no_break(
                      [g EXCEPT !.headers.ECO = c.code, !.headers.Opening = c.desc,
                                !.nodes[i].comment = EcoComment(c)],
                      ecodb, i - 1, ply + 1, i)
             ELSE classify_walk_no_break(g, ecodb, i - 1, ply + 1, root)

\* while not node == game.root(): ... ; i is node, ply is ply_count
RECURSIVE classify_walk(_, _, _, _)
classify_walk(g, ecodb, i, ply) ==
    IF i = Root
    THEN [game |-> [g EXCEPT !.headers.Moves = <<ply>>], root_node |-> Root,
          ply_count |-> ply]
    ELSE LET c == classify_fen(eco_fen(node_board(g, i)), ecodb)
         IN  IF c.code # ""
             THEN [game |-> [g EXCEPT !.headers.ECO = c.code,
                                      !.headers.Opening = c.desc,
                                      !.headers.Moves = <<ply>>,
                                      !.nodes[i].comment = EcoComment(c)],
                   root_node |-> i, ply_count |-> ply]
             ELSE classify_walk(g, ecodb, i - 1, ply + 1)

classify_opening_no_break(g, ecodb) == classify_walk_no_break(g, ecodb, Last(g), 0, Root)
classify_opening(g, ecodb) == classify_walk(g, ecodb, Last(g), 0)

\* ------------------------------------------------------------ eval_numeric
\* chess.engine.Score: Cp(x) or Mate(n); PovScore: a score and whose it is
Cp(x) == [mate |-> FALSE, v |-> x]
Mate(n) == [mate |-> TRUE, v |-> n]
negate(s) == [s EXCEPT !.v = -s.v]
\* PovScore.white()
white(pov) == IF pov.turn THEN pov.relative ELSE negate(pov.relative)
\* Score.score(mate_score=...)
score(s, mate_score) ==
    IF ~s.mate THEN s.v
    ELSE IF s.v > 0 THEN mate_score - s.v ELSE -mate_score - s.v

eval_numeric(info) == score(white(info.score), MATE_SCORE)

\* engine.analyse(board, limit): the engine answers with a score relative to
\* the side to move of the board it was given, and a principal variation
analyse(b, reply) ==
    [score |-> [relative |-> reply.score, turn |-> b.turn], pv |-> <<reply.best>>]

\* --------------------------------------------------------------- judge_move
\* board.push(move): the other side is to move, one ply later
push(b, move) == [b EXCEPT !.turn = ~b.turn, !.ply = b.ply + 1]

\* the shortcut taken for every move: the engine is asked once, always
judge_move_always_shortcut(b, played_move, reply1, reply2) ==
    LET info == analyse(b, reply1)
    IN  [judgment |-> [NoComment EXCEPT !.kind = "judgment", !.bestmove = info.pv[1],
                                        !.besteval = eval_numeric(info),
                                        !.playedeval = eval_numeric(info)],
         calls |-> 1, board |-> b]

\* reply1 and reply2 are the engine's answers to the first and, when it is
\* asked, the second query; calls counts the queries made
judge_move(b, played_move, reply1, reply2) ==
    LET info == analyse(b, reply1)
        bestmove == info.pv[1]
        besteval == eval_numeric(info)
        info2 == analyse(push(b, played_move), reply2)
    IN  IF played_move = bestmove
        THEN [judgment |-> [NoComment EXCEPT !.kind = "judgment", !.bestmove = bestmove,
                                            !.besteval = besteval,
                                            !.playedeval = besteval],
              calls |-> 1, board |-> b]
        ELSE [judgment |-> [NoComment EXCEPT !.kind = "judgment", !.bestmove = bestmove,
                                            !.besteval = besteval,
                                            !.playedeval = eval_numeric(info2)],
              calls |-> 2, board |-> b]

\* ------------------------------------------------------------ cpl, acpl
Min(a, b) == IF a < b THEN a ELSE b
cpl(delta) == Min(delta, MAX_CPL)

RECURSIVE sum(_)
sum(s) == IF s = <<>> THEN 0 ELSE Head(s) + sum(Tail(s))

\* sum(cpl_list) / len(cpl_list) as a fraction; 0 on ZeroDivisionError
acpl(cpl_list) ==
    IF Len(cpl_list) = 0 THEN [num |-> 0, den |-> 1]
    ELSE [num |-> sum(cpl_list), den |-> Len(cpl_list)]

round_down(q) == q.num \div q.den

\* Python's round(): to the nearest integer, a tie to the even one
round(q) ==
    LET f == q.num \div q.den
        r == q.num - f * q.den
    IN  IF 2 * r < q.den THEN f
        ELSE IF 2 * r > q.den THEN f + 1
        ELSE IF f % 2 = 0 THEN f ELSE f + 1

\* ----------------------------------------------------------------- add_acpl
\* the walk from the end to root_node; acc holds the lists and the nodes read
RECURSIVE acpl_walk(_, _, _, _)
acpl_walk(g, i, root, acc) ==
    IF i = root THEN acc
    ELSE LET judgment == g.nodes[i].comment
             delta == judgment.besteval - judgment.playedeval
         IN  acpl_walk(g, i - 1, root,
                 IF node_board(g, i).turn
                 THEN [acc EXCEPT !.black = Append(@, cpl(delta)), !.read = @ \cup {i}]
                 ELSE [acc EXCEPT !.white = Append(@, cpl(delta)), !.read = @ \cup {i}])

add_acpl(g, root) ==
    LET acc == acpl_walk(g, Last(g), root, [white |-> <<>>, black |-> <<>>, read |-> {}])
    IN  [game |-> [g EXCEPT !.headers.WhiteACPL = <<round(acpl(acc.white))>>,
                            !.headers.BlackACPL = <<round(acpl(acc.black))>>],
         white_cpl |-> acc.white, black_cpl |-> acc.black, read |-> acc.read]

\* ------------------------------------------------------------- truncate_pv
\* The scratch board as truncate_pv sees it: "open", "claimable" (a draw can
\* be claimed: threefold repetition, fifty moves) or "mate".  A "quiet" move
\* leaves the game open, a "rep" move reaches a claimable position, a
\* "mating" move ends the game; an "illegal" move is legal nowhere, and
\* nothing is legal after mate.
is_legal(b, move) == b # "mate" /\ move.kind # "illegal"

push_pv(b, move) ==
    IF move.kind = "mating" THEN "mate"
    ELSE IF move.kind = "rep" THEN "claimable"
    ELSE "open"

is_game_over(b, claim_draw) == b = "mate" \/ (claim_draw /\ b = "claimable")

\* the slice taken one short
truncate_result_short(b, moves) ==
    IF is_game_over(b, TRUE) THEN moves
    ELSE SubSeq(moves, 1, Min(Len(moves), SHORT_PV_LEN - 1))

\* lines 95-98: b is the board after the whole pv was pushed
truncate_result(b, moves) ==
    IF is_game_over(b, TRUE) THEN moves
    ELSE SubSeq(moves, 1, Min(Len(moves), SHORT_PV_LEN))

\* ------------------------------------------------------------------- inputs
Placements == {"p1", "p2"}
Scores == {Cp(50), Cp(-300), Mate(1)}
AltMove == 0

\* the records of an eco.json: one per position key and code
EcoName(code) == IF code = "A00" THEN "Uncommon Opening"
                 ELSE IF code = "B20" THEN "Sicilian Defence" ELSE ""
EcoRecords ==
    {[fen |-> <<p, t, "KQkq">>, eco |-> c, name |-> EcoName(c), moves |-> "1."] :
        p \in Placements, t \in {"w", "b"}, c \in {"", "A00", "B20"}}

SeqsUpTo(S, k) == UNION {[1..m -> S] : m \in 0..k}

\* the table of the pipeline specification: placement p1 is book for both sides
BookTable ==
    <<[fen |-> <<"p1", "w", "KQkq">>, eco |-> "A00", name |-> EcoName("A00"), moves |-> "1."],
      [fen |-> <<"p1", "b", "KQkq">>, eco |-> "B20", name |-> EcoName("B20"), moves |-> "1."]>>

Sides(k) == [j \in 1..k |-> j]

GIdle ==
    /\ game = PlainGame(0, FALSE) /\ game0 = game /\ ecodata = <<>>
    /\ gpc = "idle" /\ node = 0 /\ root_node = 0 /\ ply_count = 0
    /\ judge_log = <<>> /\ white_cpl = <<>> /\ black_cpl = <<>> /\ acpl_nodes = {}
PVIdle == pv = <<>> /\ board = "open" /\ pv_i = 0 /\ pv_out = [kind |-> "idle", moves |-> <<>>]
MIdle == pgn = <<>> /\ pgn_pos = 0 /\ cur = <<>> /\ engine = "none" /\ printed = <<>> /\ mpc = "idle"

GFresh ==
    /\ game0 = game /\ node = 0 /\ root_node = 0 /\ ply_count = 0
    /\ judge_log = <<>> /\ white_cpl = <<>> /\ black_cpl = <<>> /\ acpl_nodes = {}

\* ------------------------------------------------------------ analyze_game
CheckGame ==
    /\ gpc = "start"
    /\ gpc' = IF checkgame(game) THEN "checked" ELSE "raised"
    /\ UNCHANGED <<game, game0, ecodata, node, root_node, ply_count, judge_log,
                   white_cpl, black_cpl, acpl_nodes, pvvars, mvars>>

CleanGame ==
    /\ gpc = "checked"
    /\ game' = clean_game(game)
    /\ gpc' = "cleaned"
    /\ UNCHANGED <<game0, ecodata, node, root_node, ply_count, judge_log,
                   white_cpl, black_cpl, acpl_nodes, pvvars, mvars>>

ClassifyOpening ==
    /\ gpc = "cleaned"
    /\ LET r == classify_opening(game, ecodata)
       IN  /\ game' = r.game
           /\ root_node' = r.root_node
           /\ ply_count' = r.ply_count
           /\ node' = Last(r.game)
    /\ gpc' = "judging"
    /\ UNCHANGED <<game0, ecodata, judge_log, white_cpl, black_cpl, acpl_nodes,
                   pvvars, mvars>>

\* the loop handing judge_move the board after the move instead of before it
JudgeMoveOwnBoard ==
    /\ gpc = "judging"
    /\ node # root_node
    /\ \E s1 \in Scores, best \in {AltMove, game.nodes[node].move}, s2 \in Scores :
          LET prev_node == node - 1
              j == judge_move(node_board(game, node), game.nodes[node].move,
                              [score |-> s1, best |-> best],
                              [score |-> s2, best |-> AltMove])
          IN  /\ game' = [game EXCEPT !.nodes[node].comment = j.judgment]
              /\ judge_log' = Append(judge_log,
                     [node |-> node, board |-> node_board(game, node),
                      move |-> game.nodes[node].move, calls |-> j.calls,
                      judgment |-> j.judgment])
              /\ node' = prev_node
    /\ UNCHANGED <<game0, ecodata, gpc, root_node, ply_count, white_cpl, black_cpl,
                   acpl_nodes, pvvars, mvars>>

\* one turn of the loop of lines 293-296
JudgeMove ==
    /\ gpc = "judging"
    /\ node # root_node
    /\ \E s1 \in Scores, best \in {AltMove, game.nodes[node].move}, s2 \in Scores :
          LET prev_node == node - 1
              j == judge_move(node_board(game, prev_node), game.nodes[node].move,
                              [score |-> s1, best |-> best],
                              [score |-> s2, best |-> AltMove])
          IN  /\ game' = [game EXCEPT !.nodes[node].comment = j.judgment]
              /\ judge_log' = Append(judge_log,
                     [node |-> node, board |-> node_board(game, prev_node),
                      move |-> game.nodes[node].move, calls |-> j.calls,
                      judgment |-> j.judgment])
              /\ node' = prev_node
    /\ UNCHANGED <<game0, ecodata, gpc, root_node, ply_count, white_cpl, black_cpl,
                   acpl_nodes, pvvars, mvars>>

AddAcpl ==
    /\ gpc = "judging"
    /\ node = root_node
    /\ LET r == add_acpl(game, root_node)
       IN  /\ game' = r.game
           /\ white_cpl' = r.white_cpl
           /\ black_cpl' = r.black_cpl
           /\ acpl_nodes' = r.read
    /\ gpc' = "done"
    /\ UNCHANGED <<game0, ecodata, node, root_node, ply_count, judge_log, pvvars, mvars>>

\* a parsed game: with or without parse errors, bare or annotated
Init ==
    /\ \E n \in 0..MaxPly, errors \in BOOLEAN, annotated \in BOOLEAN,
          pl \in [0..MaxPly -> Placements] :
          game = [errors |-> errors, headers |-> NoHeaders,
                  nodes |-> [i \in 0..n |->
                      IF annotated
                      THEN MkNode(i, n, pl[i], TextComment("old"), <<1>>, Sides(1))
                      ELSE MkNode(i, n, pl[i], NoComment, <<>>, <<>>)]]
    /\ ecodata = BookTable
    /\ gpc = "start"
    /\ GFresh /\ PVIdle /\ MIdle

Next == CheckGame \/ CleanGame \/ ClassifyOpening \/ JudgeMove \/ AddAcpl

Spec == Init /\ [][Next]_vars

\* ------------------------------------------- clean_game on annotated trees
\* analyze_game cleans and classifies only games checkgame let through: games
\* without parse errors and with at least one move
\* clean_game applied to a game it has already cleaned
CleanAgain ==
    /\ gpc = "cleaned"
    /\ game' = clean_game(game)
    /\ gpc' = "cleaned twice"
    /\ UNCHANGED <<game0, ecodata, node, root_node, ply_count, judge_log,
                   white_cpl, black_cpl, acpl_nodes, pvvars, mvars>>

Annotations ==
    {[comment |-> c, nags |-> g, sides |-> Sides(k)] :
        c \in {NoComment, TextComment("old")}, g \in {<<>>, <<1>>}, k \in 0..MaxSide}

InitClean ==
    /\ \E n \in 1..MaxCleanPly, an \in [0..MaxCleanPly -> Annotations],
          eco \in {"", "C50"} :
          game = [errors |-> FALSE, headers |-> [NoHeaders EXCEPT !.ECO = eco],
                  nodes |-> [i \in 0..n |->
                      MkNode(i, n, "p1", an[i].comment, an[i].nags,
                             IF i = n THEN <<>> ELSE an[i].sides)]]
    /\ ecodata = <<>>
    /\ gpc = "checked"
    /\ GFresh /\ PVIdle /\ MIdle

NextClean == CleanGame \/ CleanAgain

SpecClean == InitClean /\ [][NextClean]_vars

\* -------------------------------------- classify_opening on any table
InitClassify ==
    /\ \E n \in 1..MaxEcoPly, pl \in [0..MaxEcoPly -> Placements] :
          game = [errors |-> FALSE, headers |-> NoHeaders,
                  nodes |-> [i \in 0..n |-> MkNode(i, n, pl[i], NoComment, <<>>, <<>>)]]
    /\ ecodata \in SeqsUpTo(EcoRecords, MaxEco)
    /\ gpc = "cleaned"
    /\ GFresh /\ PVIdle /\ MIdle

NextClassify == ClassifyOpening

SpecClassify == InitClassify /\ [][NextClassify]_vars

\* ------------------------------------------------ add_acpl on judged games
\* (besteval, playedeval) pairs an engine can produce, White's point of view
JudgmentSamples ==
    {[NoComment EXCEPT !.kind = "judgment", !.besteval = e[1], !.playedeval = e[2]] :
        e \in {<<0, -100>>, <<200, -100>>, <<2500, 0>>, <<0, 100>>}}

InitAcpl ==
    /\ \E n \in 1..MaxAcplPly, r \in 0..MaxAcplPly,
          js \in [1..MaxAcplPly -> JudgmentSamples] :
          /\ r <= n
          /\ root_node = r
          /\ node = r
          /\ game = [errors |-> FALSE, headers |-> [NoHeaders EXCEPT !.Moves = <<n - r>>],
                     nodes |-> [i \in 0..n |->
                         MkNode(i, n, "p1",
                                IF i > r THEN js[i]
                                ELSE IF i = r /\ r > 0
                                     THEN EcoComment([code |-> "A00", desc |-> EcoName("A00")])
                                     ELSE NoComment,
                                <<>>, <<>>)]]
          /\ ply_count = n - r
    /\ game0 = game
    /\ ecodata = BookTable
    /\ gpc = "judging"
    /\ judge_log = <<>> /\ white_cpl = <<>> /\ black_cpl = <<>> /\ acpl_nodes = {}
    /\ PVIdle /\ MIdle

NextAcpl == AddAcpl

SpecAcpl == InitAcpl /\ [][NextAcpl]_vars

\* -------------------------------------------------------------- truncate_pv
\* lines 90-93: one turn of the loop over a legal move
PvPush ==
    /\ pv_out.kind = "running"
    /\ pv_i < Len(pv)
    /\ is_legal(board, pv[pv_i + 1])
    /\ board' = push_pv(board, pv[pv_i + 1])
    /\ pv_i' = pv_i + 1
    /\ UNCHANGED <<pv, pv_out, gvars, mvars>>

\* lines 91-92: raise AssertionError
PvIllegal ==
    /\ pv_out.kind = "running"
    /\ pv_i < Len(pv)
    /\ ~is_legal(board, pv[pv_i + 1])
    /\ pv_out' = [kind |-> "raised", moves |-> <<>>]
    /\ UNCHANGED <<pv, board, pv_i, gvars, mvars>>

\* lines 95-98
PvReturn ==
    /\ pv_out.kind = "running"
    /\ pv_i = Len(pv)
    /\ pv_out' = [kind |-> "returned", moves |-> truncate_result(board, pv)]
    /\ UNCHANGED <<pv, board, pv_i, gvars, mvars>>

\* principal variations of quiet moves with at most one other move among them
PVs ==
    {[i \in 1..len |-> [kind |-> IF i = at THEN k ELSE "quiet", n |-> i]] :
        len \in 0..MaxPV, at \in 0..MaxPV, k \in {"rep", "mating", "illegal"}}

InitPV ==
    /\ pv \in PVs
    /\ board \in {"open", "claimable"}
    /\ pv_i = 0
    /\ pv_out = [kind |-> "running", moves |-> <<>>]
    /\ GIdle /\ MIdle

NextPV == PvPush \/ PvIllegal \/ PvReturn

SpecPV == InitPV /\ [][NextPV]_vars

\* --------------------------------------------------------------------- main
\* line 341: the game's Termination header starts with "kyle_b81 won"
selected(g) == g.won

\* lines 317-322: popen_uci starts the engine, or raises and main re-raises
OpenEngine ==
    /\ mpc = "start"
    /\ engine' = "running"
    /\ mpc' = "read"
    /\ UNCHANGED <<pgn, pgn_pos, cur, printed, gvars, pvvars>>

OpenEngineFails ==
    /\ mpc = "start"
    /\ mpc' = "raised"
    /\ UNCHANGED <<pgn, pgn_pos, cur, engine, printed, gvars, pvvars>>

\* lines 339, 349: game = chess.pgn.read_game(pgn)
ReadGame ==
    /\ mpc = "read"
    /\ IF pgn_pos < Len(pgn)
       THEN cur' = <<pgn[pgn_pos + 1]>> /\ pgn_pos' = pgn_pos + 1
       ELSE cur' = <<>> /\ pgn_pos' = pgn_pos
    /\ mpc' = "loop"
    /\ UNCHANGED <<pgn, engine, printed, gvars, pvvars>>

\* lines 340-341: a game the filter rejects
SkipGame ==
    /\ mpc = "loop"
    /\ cur # <<>>
    /\ ~selected(cur[1])
    /\ mpc' = "read"
    /\ UNCHANGED <<pgn, pgn_pos, cur, engine, printed, gvars, pvvars>>

\* lines 342-348: analyze_game returns and the ACPL is printed, or checkgame
\* raises and nothing in main catches it
AnalyzeAndPrint ==
    /\ mpc = "loop"
    /\ cur # <<>>
    /\ selected(cur[1])
    /\ IF checkgame(cur[1].game)
       THEN /\ printed' = Append(printed, cur[1].id)
            /\ mpc' = "read"
       ELSE /\ printed' = printed
            /\ mpc' = "raised"
    /\ UNCHANGED <<pgn, pgn_pos, cur, engine, gvars, pvvars>>

\* line 351: the loop ended, engine.quit()
QuitEngine ==
    /\ mpc = "loop"
    /\ cur = <<>>
    /\ engine' = "quit"
    /\ mpc' = "done"
    /\ UNCHANGED <<pgn, pgn_pos, cur, printed, gvars, pvvars>>

\* the games of the file: selected or not, with or without parse errors, with
\* or without moves
BatchGames ==
    {[won |-> w, game |-> PlainGame(n, e)] : w \in BOOLEAN, n \in {0, 2}, e \in BOOLEAN}

InitMain ==
    /\ \E k \in 0..MaxGames, gs \in [1..MaxGames -> BatchGames] :
          pgn = [i \in 1..k |-> [id |-> i, won |-> gs[i].won, game |-> gs[i].game]]
    /\ pgn_pos = 0
    /\ cur = <<>>
    /\ engine = "none"
    /\ printed = <<>>
    /\ mpc = "start"
    /\ GIdle /\ PVIdle

NextMain ==
    OpenEngine \/ OpenEngineFails \/ ReadGame \/ SkipGame \/ AnalyzeAndPrint \/ QuitEngine

SpecMain == InitMain /\ [][NextMain]_vars

\* ================================================================== claims
Max(S) == CHOOSE x \in S : \A y \in S : y <= x
Abs(x) == IF x < 0 THEN -x ELSE x

RECURSIVE SetSum(_, _)
SetSum(S, i) ==
    IF S = {} THEN 0
    ELSE LET x == CHOOSE y \in S : TRUE
         IN  (IF i = 0 THEN game.nodes[x].comment.besteval
                            - game.nodes[x].comment.playedeval
              ELSE Min(game.nodes[x].comment.besteval
                       - game.nodes[x].comment.playedeval, MAX_CPL))
             + SetSum(S \ {x}, i)

\* ---- C1: classify_opening
KeyOf(i) == <<game0.nodes[i].placement, IF i % 2 = 0 THEN "w" ELSE "b", "KQkq">>
RecordsOf(k) == {j \in DOMAIN ecodata : ecodata[j].fen = k}
InTable(k) == RecordsOf(k) # {}
\* the record classify_fen ends on carries a code
Coded(k) == InTable(k) /\ ecodata[Max(RecordsOf(k))].eco # ""
Classified == {i \in DOMAIN game.nodes : game.nodes[i].comment.kind = "eco"}
Attached(i) ==
    /\ Classified = {i}
    /\ root_node = i
    /\ \E j \in RecordsOf(KeyOf(i)) :
          /\ game.headers.ECO = ecodata[j].eco
          /\ game.headers.Opening = ecodata[j].name
          /\ game.nodes[i].comment.text = <<ecodata[j].eco, ecodata[j].name>>
NothingAttached ==
    /\ Classified = {}
    /\ root_node = Root
    /\ game.headers.ECO = game0.headers.ECO
    /\ game.headers.Opening = game0.headers.Opening

\* C1 as claimed: no classification for a key absent from the table, and when
\* any position of the main line, the root among them, matches a table record
\* (read in the claim's favour: a record classify_fen ends on with a code),
\* exactly one classification, at the deepest matching position, which is the
\* classified root.
C1_AnyMatchClassified ==
    gpc = "judging" =>
        LET M == {i \in 0..Last(game) : Coded(KeyOf(i))}
        IN  /\ \A i \in Classified : InTable(KeyOf(i))
            /\ M # {} => Attached(Max(M))

\* C1 amended: no classification for a key absent from the table; when some
\* position reached by a played move (any node but the root) has a key whose
\* last table record carries a non-empty code, exactly one classification is
\* attached, at the deepest such position, which is the classified root;
\* otherwise nothing is attached and the classified root is the game's root.
C1_DeepestCodedMatch ==
    gpc = "judging" =>
        LET M == {i \in 1..Last(game) : Coded(KeyOf(i))}
        IN  /\ \A i \in Classified : InTable(KeyOf(i))
            /\ M # {} => Attached(Max(M)) /\ ply_count = Last(game) - Max(M)
            /\ M = {} => NothingAttached /\ ply_count = Last(game)
            /\ game.headers.Moves = <<ply_count>>

\* two coded matches on the line, and the deeper one was taken
C1_Witness ==
    /\ gpc = "judging"
    /\ Cardinality({i \in 1..Last(game) : Coded(KeyOf(i))}) >= 2
    /\ Attached(Max({i \in 1..Last(game) : Coded(KeyOf(i))}))
    /\ root_node < Last(game)

\* ---- C2: the losses add_acpl appends
\* C2 as claimed: every loss appended to a side's list is at least 0 and at
\* most MAX_CPL.
C2_LossInRange ==
    /\ \A k \in DOMAIN white_cpl : 0 <= white_cpl[k] /\ white_cpl[k] <= MAX_CPL
    /\ \A k \in DOMAIN black_cpl : 0 <= black_cpl[k] /\ black_cpl[k] <= MAX_CPL

\* ---- C3: the ACPL headers
WhiteMoved == {i \in (root_node + 1)..Last(game) : i % 2 = 1}
BlackMoved == {i \in (root_node + 1)..Last(game) : i % 2 = 0}
\* h is an integer nearest to total / count, and 0 when count is 0
NearestMean(h, total, count) ==
    IF count = 0 THEN h = 0 ELSE 2 * Abs(h * count - total) <= count

\* C3: after add_acpl each ACPL header holds the mean of that side's clamped
\* losses rounded to the nearest integer, and 0 when the side has no judged
\* move.
C3_AcplIsRoundedMean ==
    gpc = "done" =>
        /\ Len(game.headers.WhiteACPL) = 1
        /\ Len(game.headers.BlackACPL) = 1
        /\ NearestMean(game.headers.WhiteACPL[1], SetSum(WhiteMoved, 1),
                       Cardinality(WhiteMoved))
        /\ NearestMean(game.headers.BlackACPL[1], SetSum(BlackMoved, 1),
                       Cardinality(BlackMoved))

\* White's deltas are 100, 300 and 2500, Black has no judged move: 800 and 0
C3_Witness ==
    /\ gpc = "done"
    /\ Cardinality(WhiteMoved) = 3
    /\ SetSum(WhiteMoved, 0) = 2900
    /\ SetSum(WhiteMoved, 1) = 2400
    /\ game.headers.WhiteACPL = <<800>>

\* ---- C4: judge_move
\* C4: in every judge_move call, when the played move is the engine's best
\* move the judgment's playedeval equals its besteval and the engine was
\* queried once; otherwise the engine was queried twice.
C4_BestMoveShortcut ==
    \A k \in DOMAIN judge_log :
        LET e == judge_log[k]
        IN  IF e.move = e.judgment.bestmove
            THEN e.judgment.playedeval = e.judgment.besteval /\ e.calls = 1
            ELSE e.calls = 2

C4_Witness ==
    /\ \E k \in DOMAIN judge_log :
          judge_log[k].move = judge_log[k].judgment.bestmove /\ judge_log[k].calls = 1
    /\ \E k \in DOMAIN judge_log :
          /\ judge_log[k].move # judge_log[k].judgment.bestmove
          /\ judge_log[k].calls = 2
          /\ judge_log[k].judgment.playedeval # judge_log[k].judgment.besteval

\* ---- C5: an invalid game in the batch
MainEnded == mpc \in {"done", "raised"} /\ engine # "none"
Valid(i) == ~pgn[i].game.errors /\ Last(pgn[i].game) >= 1
Selected(i) == pgn[i].won
PrintedIds == {printed[k] : k \in DOMAIN printed}

\* C5 as claimed: when main ends, every valid game of the batch that passes
\* the filter has had its ACPL printed, whatever invalid games the batch holds.
C5_OtherGamesAnalysed ==
    MainEnded => \A i \in DOMAIN pgn : Selected(i) /\ Valid(i) => i \in PrintedIds

\* ---- C6: the engine session
\* C6 as claimed: once the engine was opened, main never ends with it running.
C6_EngineQuitOnExit == mpc \in {"done", "raised"} => engine # "running"

\* ---- C7: checkgame
\* C7 as claimed: checkgame returns for every game without parse errors (its
\* root is always reachable from its end, a game of no moves included) and
\* raises for every other game, before any engine query.
C7_NoErrorsValidates ==
    gpc # "start" =>
        IF ~game0.errors THEN gpc # "raised"
        ELSE gpc = "raised" /\ judge_log = <<>>

\* C7 amended: checkgame returns for every game without parse errors whose
\* main line has at least one move, and raises for every other game (parse
\* errors, or an end node that is the root), before any engine query.
C7_ValidatesGamesWithMoves ==
    /\ gpc = "start" => judge_log = <<>>
    /\ gpc # "start" =>
          IF ~game0.errors /\ Last(game0) >= 1 THEN gpc # "raised"
          ELSE gpc = "raised" /\ judge_log = <<>>

C7_Witness ==
    /\ gpc = "raised" /\ ~game0.errors /\ Last(game0) = 0 /\ judge_log = <<>>

\* ---- C8: truncate_pv
AllLegal ==
    \A i \in DOMAIN pv : pv[i].kind # "illegal" /\ (i < Len(pv) => pv[i].kind # "mating")
\* the position after the whole pv: a mate, or a draw that can be claimed
EndsGame ==
    IF pv = <<>> THEN board \in {"claimable", "mate"}
    ELSE pv[Len(pv)].kind \in {"rep", "mating"}

\* C8: a legal pv longer than SHORT_PV_LEN that does not end the game comes
\* back as its first SHORT_PV_LEN moves; a legal pv that ends the game comes
\* back whole; a pv with an illegal move raises and nothing is returned.
C8_TruncatePv ==
    /\ pv_out.kind = "returned" =>
          /\ AllLegal
          /\ EndsGame => pv_out.moves = pv
          /\ ~EndsGame /\ Len(pv) > SHORT_PV_LEN =>
                pv_out.moves = [i \in 1..SHORT_PV_LEN |-> pv[i]]
    /\ pv_out.kind = "raised" => ~AllLegal
    /\ pv_out.kind = "running" /\ pv_i = Len(pv) => AllLegal

C8_Witness ==
    /\ pv_out.kind = "returned"
    /\ Len(pv) = 20
    /\ \E i \in 1..SHORT_PV_LEN : pv[i].kind = "rep"
    /\ Len(pv_out.moves) = SHORT_PV_LEN

\* ---- C9: clean_game
Linear(g) ==
    \A i \in DOMAIN g.nodes :
        /\ g.nodes[i].comment = NoComment
        /\ g.nodes[i].variations = IF i = Last(g) THEN <<>> ELSE <<0>>

\* C9: a cleaned game is one line from root to end, without comments, every
\* node with one continuation (none at the end), its headers, moves and
\* positions kept; cleaning it again changes nothing.
C9_CleanIdempotentLinear ==
    /\ gpc \in {"cleaned", "cleaned twice"} =>
          /\ Linear(game)
          /\ game.headers = game0.headers
          /\ DOMAIN game.nodes = DOMAIN game0.nodes
          /\ \A i \in DOMAIN game.nodes :
                /\ game.nodes[i].move = game0.nodes[i].move
                /\ game.nodes[i].placement = game0.nodes[i].placement
    /\ gpc = "cleaned twice" => game = clean_game(game0)

C9_Witness ==
    /\ gpc = "cleaned twice"
    /\ \E i \in DOMAIN game0.nodes :
          Len(game0.nodes[i].variations) = 3 /\ game0.nodes[i].comment # NoComment
    /\ game0.headers.ECO = "C50"
    /\ Linear(game)

\* ---- C10: the judging loop
\* C10: when analyze_game is done, judge_move was called once for each node
\* from the end down to the node after the classified root, in that order,
\* with the board of the node's parent and the node's move, and the node's
\* comment is that call's judgment; no node from the root to the classified
\* root carries a judgment; add_acpl read the comments of exactly the judged
\* nodes.
C10_JudgedEqualsRead ==
    gpc = "done" =>
        /\ Len(judge_log) = Last(game) - root_node
        /\ \A k \in DOMAIN judge_log :
              LET e == judge_log[k]
              IN  /\ e.node = Last(game) - k + 1
                  /\ e.board = node_board(game0, e.node - 1)
                  /\ e.move = game0.nodes[e.node].move
                  /\ game.nodes[e.node].comment = e.judgment
        /\ \A i \in 0..root_node : game.nodes[i].comment.kind # "judgment"
        /\ acpl_nodes = {judge_log[k].node : k \in DOMAIN judge_log}

C10_Witness ==
    /\ gpc = "done"
    /\ root_node >= 1
    /\ Len(judge_log) >= 2
    /\ acpl_nodes = (root_node + 1)..Last(game)

====
